---------------------------- MODULE Spec2Model ----------------------------
(***************************************************************************)
(* A model of src/app.py: the Streamlit page that generates drug-like      *)
(* molecules by concatenating fragment and linker SMILES strings           *)
(* (generate_molecules) and shows the accepted ones (display_results).     *)
(*                                                                         *)
(* Units.  Descriptor values the toolkit returns are integers in           *)
(* thousandths (150000 is 150.000 Da); the values round(x, 2) stores in a  *)
(* record are integers in hundredths (15000 is 150.00 Da).                 *)
(***************************************************************************)
EXTENDS Integers, Sequences, FiniteSets, TLC

\* ------------------------------------------------------------------ bounds
\* The slider offers 1..50 molecules; the model offers 1..MaxMolecules.
MaxMolecules == 2

\* ------------------------------------------------------- program constants
\* `if 150 <= mol_wt <= 500`
MW_MIN == 150
MW_MAX == 500
\* `num_cols = min(4, len(images))`
GRID_COLS == 4
\* len(combination_patterns)
NUM_PATTERNS == 6

\* ------------------------------------------------------------------ inputs
\* main()'s library, cut to two fragments (furan, benzene) and two linkers.
fragments == <<"c1cocc1", "c1ccccc1">>
linkers == <<"C", "CC">>

\* Molecular weights a toolkit may report, in thousandths of a dalton: on
\* the two bounds, and just outside them (149.996 rounds to 150.00, 500.006
\* to 500.01).
InWeights == {150000, 500000}
OutWeights == {149996, 500006}

\* The four descriptors that are reported but do not gate acceptance
\* (logp and tpsa in thousandths).
P0 == [logp |-> 2346, tpsa |-> 40128, h_acceptors |-> 3, h_donors |-> 1]
P1 == [logp |-> 6781, tpsa |-> 152334, h_acceptors |-> 12, h_donors |-> 6]
Profiles == {P0, P1}

\* The toolkits the page may run against: "any" answers each call as it
\* likes (it may raise, and need not repeat itself); the others are
\* deterministic stubs, functions of the pattern string.
PureToolkits == {"invalid", "onlyFragLinker", "byLength"}
Toolkits == {"any"} \cup PureToolkits

VARIABLES
    RDKIT_AVAILABLE,  \* the import of rdkit succeeded
    banner,           \* what the import's except clause put on the page
    Chem,             \* the toolkit in use, "None" when the import failed
    rng,              \* the state of the random module's generator
    pc,               \* where the script is
    num_molecules,    \* the slider's value for the running call
    molecules_data, i, frag1, frag2, linker, j, valid_molecule,
    df_data, images,  \* display_results' table rows and images
    num_cols,         \* the image grid's columns (0: no grid)
    ui,               \* what the page shows
    escaped,          \* the function an exception propagated out of, or ""
    last,             \* the latest pattern's index and the toolkit's answer to it (history)
    slotOf,           \* the slot each record of molecules_data came from (history)
    firstInRange,     \* first pattern of the slot parsed with weight in range (history)
    firstOk,          \* ... and with all five descriptors computed (history)
    sawValid,         \* some parse of this call returned a molecule (history)
    draws,            \* the draws of the running call, in order (history)
    started,          \* the running call's generator state and count at its start (history)
    returned,         \* what the latest call returned (history)
    reference,        \* deterministic toolkit: the first call's start and result (history)
    repeat            \* the running call is a later one than the reference (history)

vars == <<RDKIT_AVAILABLE, banner, Chem, rng, pc, num_molecules,
          molecules_data, i, frag1, frag2, linker, j, valid_molecule,
          df_data, images, num_cols, ui, escaped, last, slotOf, firstInRange,
          firstOk, sawValid, draws, started, returned, reference, repeat>>

\* ----------------------------------------------------------------- helpers
None == [none |-> TRUE]
NoAnswer == [index |-> 0]

\* round(x, 2) of a value in thousandths, in hundredths (ties to even).
Round2(x) ==
    LET q == x \div 10
        r == x % 10
    IN  IF r < 5 THEN q
        ELSE IF r > 5 THEN q + 1
        ELSE IF q % 2 = 0 THEN q ELSE q + 1

Min(a, b) == IF a <= b THEN a ELSE b

\* ------------------------------------------------------- the random module
\* The generator is a deterministic function of its state: a counter over
\* a cyclic tape of outputs.  Its four states give a slot equal fragments
\* or different ones, in either order, with either linker.
Tape == <<0, 0, 1, 1>>
RngStates == 0 .. (Len(Tape) - 1)
RngNext(s) == (s + 1) % Len(Tape)
\* _randbelow(n) in state s
RandBelow(s, n) == Tape[s + 1] % n

\* random.choice(seq) in generator state s
random_choice(seq, s) == seq[RandBelow(s, Len(seq)) + 1]

\* ------------------------------------------------------------ the toolkit
\* An answer is what one loop body sees of the toolkit for one pattern:
\* whether MolFromSmiles returned a molecule, which call raised (if any),
\* and the descriptor values of the calls that returned.
ParseRaises == [valid |-> FALSE, raises |-> "MolFromSmiles", mol_wt |-> 0, prof |-> P0]
ParseNone == [valid |-> FALSE, raises |-> "", mol_wt |-> 0, prof |-> P0]
Complete(w, p) == [valid |-> TRUE, raises |-> "", mol_wt |-> w, prof |-> p]

Answers ==
    {ParseRaises, ParseNone}
    \cup {[valid |-> TRUE, raises |-> "MolWt", mol_wt |-> 0, prof |-> P0]}
    \cup {[valid |-> TRUE, raises |-> c, mol_wt |-> w, prof |-> P0] :
             c \in {"MolLogP", "CalcTPSA", "CalcNumHBA", "CalcNumHBD"},
             w \in {321456}}
    \cup {Complete(w, p) : w \in InWeights, p \in Profiles}
    \cup {Complete(w, P0) : w \in OutWeights}

FragLinker == {fragments[a] \o linkers[b] :
                   a \in 1 .. Len(fragments), b \in 1 .. Len(linkers)}

\* What toolkit `chem` may answer for `pattern`.  With Chem = None the
\* attribute access Chem.MolFromSmiles raises AttributeError.
ToolkitAnswers(chem, pattern) ==
    CASE chem = "None" -> {ParseRaises}
      [] chem = "any" -> Answers
      [] chem = "invalid" -> {ParseNone}
      [] chem = "onlyFragLinker" ->
            IF pattern \in FragLinker THEN {Complete(321456, P0)} ELSE {ParseNone}
      [] chem = "byLength" ->
            {Complete((Len(pattern) - 2) * 10000,
                      IF Len(pattern) % 2 = 0 THEN P0 ELSE P1)}

\* Draw.MolToImage: whether it may return (TRUE) or raise (FALSE).
RenderOutcomes(chem) == IF chem = "any" THEN {TRUE, FALSE} ELSE {TRUE}

\* ------------------------------------------------- generate_molecules
\* The six candidate patterns of a slot, in the order they are tried.
combination_patterns(f1, l, f2) ==
    << f1 \o l \o f2,
       f2 \o l \o f1,
       f1 \o l,
       f2 \o l,
       l \o f1 \o f2,
       l \o f2 \o f1 >>

\* Faulty variant: the upper bound is forgotten.
GateNoUpper(a) == MW_MIN * 1000 <= a.mol_wt

\* Faulty variant: the other Lipinski limits gate as well.
GateLipinski(a) ==
    /\ MW_MIN * 1000 <= a.mol_wt
    /\ a.mol_wt <= MW_MAX * 1000
    /\ a.prof.logp <= 5000
    /\ a.prof.h_acceptors <= 10
    /\ a.prof.h_donors <= 5

\* `if 150 <= mol_wt <= 500`, on the answer's unrounded weight.
Gate(a) == MW_MIN * 1000 <= a.mol_wt /\ a.mol_wt <= MW_MAX * 1000

\* Faulty variant: the try block ends after the parse.
InTryParseOnly(call) == call = "MolFromSmiles"

\* The toolkit calls inside the try block, whose exceptions
\* `except Exception: continue` swallows.
InTry(call) ==
    call \in {"MolFromSmiles", "MolWt", "MolLogP", "CalcTPSA", "CalcNumHBA", "CalcNumHBD"}

\* Faulty variant: no break, so the last acceptable pattern wins.
LoopExitNoBreak(accepted, k) == k >= NUM_PATTERNS

\* Whether the inner loop is over after pattern k: the break on
\* acceptance, or the list exhausted.
LoopExit(accepted, k) == accepted \/ k >= NUM_PATTERNS

\* The dictionary built for an accepted pattern.
MoleculeRecord(pattern, a) ==
    [smiles |-> pattern,
     mol_wt |-> Round2(a.mol_wt),
     logp |-> Round2(a.prof.logp),
     tpsa |-> Round2(a.prof.tpsa),
     h_acceptors |-> a.prof.h_acceptors,
     h_donors |-> a.prof.h_donors,
     mol |-> pattern]

\* Faulty variant: range(num_molecules + 1).
MoreSlotsInclusive(done, n) == done <= n

\* `for i in range(num_molecules)`: whether another slot follows i done ones.
MoreSlots(done, n) == done < n

\* The three random.choice calls of a slot from generator state s.
DrawSlot(s) ==
    LET s2 == RngNext(s)
        s3 == RngNext(s2)
    IN  [frag1 |-> random_choice(fragments, s),
         frag2 |-> random_choice(fragments, s2),
         linker |-> random_choice(linkers, s3),
         rng |-> RngNext(s3),
         log |-> << [seq |-> "fragments", k |-> RandBelow(s, Len(fragments))],
                    [seq |-> "fragments", k |-> RandBelow(s2, Len(fragments))],
                    [seq |-> "linkers", k |-> RandBelow(s3, Len(linkers))] >>]

\* Python truthiness of valid_molecule (None or a non-empty dict).
Truthy(v) == v # None

\* Faulty variant: `if molecules_data is not None`.
NonEmptyOrNot(list) == Len(list) >= 0

\* Python truthiness of a list.
NonEmpty(list) == Len(list) > 0

\* Faulty variant: a pattern already in the list is not appended again.
CollectedUnique(list, v) ==
    IF Truthy(v) /\ \A k \in 1 .. Len(list) : list[k].smiles # v.smiles
    THEN Append(list, v) ELSE list

\* `if valid_molecule: molecules_data.append(valid_molecule)`
Collected(list, v) == IF Truthy(v) THEN Append(list, v) ELSE list

\* Faulty variant: a slot that yields nothing is tried again.
NextIndexRetry(done, v) == IF Truthy(v) THEN done + 1 ELSE done

\* The for loop's advance: the count of slots done after one more, whatever
\* the slot's valid_molecule v.
NextIndex(done, v) == done + 1

\* Faulty variant: the list outlives the call (a module-level list, or a
\* mutable default argument).
StaleList == molecules_data

\* `molecules_data = []`
FreshList == << >>

\* What a call's returned list is compared by: patterns and descriptor
\* values, without the molecule handles.
Values(list) ==
    [k \in 1 .. Len(list) |->
        [smiles |-> list[k].smiles, mol_wt |-> list[k].mol_wt, logp |-> list[k].logp,
         tpsa |-> list[k].tpsa, h_acceptors |-> list[k].h_acceptors,
         h_donors |-> list[k].h_donors]]

\* Whether weight w (thousandths) lies in [150, 500], for the histories.
InRange(w) == 150000 <= w /\ w <= 500000

NotStarted == [rng |-> 0, n |-> 0]
NotReturned == [done |-> FALSE, list |-> << >>]
NoReference == [none |-> TRUE]

\* ------------------------------------------------------------------ states
\* The script's import block and first run without a button press.
Init ==
    /\ RDKIT_AVAILABLE \in BOOLEAN
    /\ banner = IF RDKIT_AVAILABLE THEN "" ELSE "RDKit not available"
    /\ Chem \in IF RDKIT_AVAILABLE THEN Toolkits ELSE {"None"}
    /\ rng = 0
    /\ pc = "idle"
    /\ num_molecules = 0
    /\ molecules_data = << >>
    /\ i = 0
    /\ frag1 = ""
    /\ frag2 = ""
    /\ linker = ""
    /\ j = 0
    /\ valid_molecule = None
    /\ df_data = << >>
    /\ images = << >>
    /\ num_cols = 0
    /\ ui = "info"
    /\ escaped = ""
    /\ last = NoAnswer
    /\ slotOf = << >>
    /\ firstInRange = 0
    /\ firstOk = 0
    /\ sawValid = FALSE
    /\ draws = << >>
    /\ started = NotStarted
    /\ returned = NotReturned
    /\ reference = NoReference
    /\ repeat = FALSE

\* main(): the button is pressed with the slider at n, and
\* generate_molecules starts with an empty list.  The module-level
\* generator is in whatever state s the session left it in (its seeding at
\* import, random.seed, earlier draws).
Press ==
    /\ pc = "idle"
    /\ \E n \in 1 .. MaxMolecules, s \in RngStates :
          /\ num_molecules' = n
          /\ rng' = s
          /\ started' = [rng |-> s, n |-> n]
    /\ molecules_data' = FreshList
    /\ i' = 0
    /\ j' = 0
    /\ valid_molecule' = None
    /\ df_data' = << >>
    /\ images' = << >>
    /\ num_cols' = 0
    /\ ui' = "spinner"
    /\ escaped' = ""
    /\ last' = NoAnswer
    /\ slotOf' = << >>
    /\ firstInRange' = 0
    /\ firstOk' = 0
    /\ sawValid' = FALSE
    /\ draws' = << >>
    /\ returned' = NotReturned
    /\ repeat' = (reference # NoReference)
    /\ pc' = "for"
    /\ UNCHANGED <<RDKIT_AVAILABLE, banner, Chem, frag1, frag2, linker, reference>>

\* The head of a slot: the three draws, the six patterns, valid_molecule = None.
NextSlot ==
    /\ pc = "for"
    /\ MoreSlots(i, num_molecules)
    /\ LET d == DrawSlot(rng)
       IN  /\ frag1' = d.frag1
           /\ frag2' = d.frag2
           /\ linker' = d.linker
           /\ rng' = d.rng
           /\ draws' = draws \o d.log
    /\ valid_molecule' = None
    /\ j' = 1
    /\ last' = NoAnswer
    /\ firstInRange' = 0
    /\ firstOk' = 0
    /\ pc' = "try"
    /\ UNCHANGED <<RDKIT_AVAILABLE, banner, Chem, num_molecules, molecules_data, i,
                   df_data, images, num_cols, ui, escaped, slotOf, sawValid,
                   started, returned, reference, repeat>>

\* One pass of the inner loop's body, for pattern j.
TryPattern ==
    /\ pc = "try"
    /\ LET pattern == combination_patterns(frag1, linker, frag2)[j]
       IN  \E a \in ToolkitAnswers(Chem, pattern) :
              LET computed == a.valid /\ a.raises = ""
                  accepted == computed /\ Gate(a)
                  propagates == a.raises # "" /\ ~InTry(a.raises)
                  weighed == a.valid /\ a.raises \notin {"MolFromSmiles", "MolWt"}
              IN  /\ last' = [index |-> j,
                               kind |-> IF ~a.valid /\ a.raises = "" THEN "None"
                                        ELSE IF a.raises # "" THEN "raised"
                                        ELSE "computed",
                               mol_wt |-> a.mol_wt]
                  /\ sawValid' = (sawValid \/ a.valid)
                  /\ firstInRange' = IF firstInRange = 0 /\ weighed /\ InRange(a.mol_wt)
                                     THEN j ELSE firstInRange
                  /\ firstOk' = IF firstOk = 0 /\ computed /\ InRange(a.mol_wt)
                                THEN j ELSE firstOk
                  /\ IF propagates
                     THEN /\ escaped' = "generate_molecules"
                          /\ ui' = "exception"
                          /\ pc' = "idle"
                          /\ UNCHANGED <<valid_molecule, j>>
                     ELSE /\ valid_molecule' =
                                IF accepted THEN MoleculeRecord(pattern, a)
                                ELSE valid_molecule
                          /\ IF LoopExit(accepted, j)
                             THEN pc' = "collect" /\ j' = j
                             ELSE pc' = "try" /\ j' = j + 1
                          /\ UNCHANGED <<escaped, ui>>
    /\ UNCHANGED <<RDKIT_AVAILABLE, banner, Chem, rng, num_molecules, molecules_data, i,
                   frag1, frag2, linker, df_data, images, num_cols, slotOf,
                   draws, started, returned, reference, repeat>>

\* The end of a slot: the record, if any, is appended.
Collect ==
    /\ pc = "collect"
    /\ molecules_data' = Collected(molecules_data, valid_molecule)
    /\ slotOf' = slotOf \o [k \in 1 .. (Len(molecules_data') - Len(molecules_data)) |-> i + 1]
    /\ i' = NextIndex(i, valid_molecule)
    /\ pc' = "for"
    \* The slot's locals are dead here: the next slot assigns each before
    \* reading it, and the return reads none of them.
    /\ frag1' = ""
    /\ frag2' = ""
    /\ linker' = ""
    /\ j' = 0
    /\ valid_molecule' = None
    /\ last' = NoAnswer
    /\ firstInRange' = 0
    /\ firstOk' = 0
    /\ UNCHANGED <<RDKIT_AVAILABLE, banner, Chem, rng, num_molecules, df_data, images,
                   num_cols, ui, escaped, sawValid, draws, started, returned,
                   reference, repeat>>

\* `return molecules_data`, and main()'s choice between display_results
\* and the warning.
Return ==
    /\ pc = "for"
    /\ ~MoreSlots(i, num_molecules)
    /\ returned' = [done |-> TRUE, list |-> Values(molecules_data)]
    /\ reference' = IF reference = NoReference /\ Chem \in PureToolkits
                    THEN [started |-> started, draws |-> draws,
                          returned |-> Values(molecules_data)]
                    ELSE reference
    /\ IF NonEmpty(molecules_data)
       THEN /\ pc' = "display"
            /\ UNCHANGED ui
       ELSE /\ pc' = "idle"
            /\ ui' = "warning"
    /\ UNCHANGED <<RDKIT_AVAILABLE, banner, Chem, rng, num_molecules, molecules_data, i,
                   frag1, frag2, linker, j, valid_molecule, df_data, images, num_cols,
                   escaped, last, slotOf, firstInRange, firstOk, sawValid,
                   draws, started, repeat>>

\* Faulty variant: f'MOL_{i}'.
MoleculeIdZeroBased(k) == "MOL_" \o ToString(k)

\* The identifier display_results gives the record at 0-based position k.
MoleculeId(k) == "MOL_" \o ToString(k + 1)

\* The table row display_results builds for enumerate()'s (k, mol_data).
Row(k, mol_data) ==
    [id |-> MoleculeId(k), smiles |-> mol_data.smiles, mol_wt |-> mol_data.mol_wt,
     logp |-> mol_data.logp, tpsa |-> mol_data.tpsa,
     h_acceptors |-> mol_data.h_acceptors, h_donors |-> mol_data.h_donors]

\* display_results(molecules_data).  Draw.MolToImage is outside any try:
\* when it raises for some record the exception leaves display_results and
\* neither the table nor the grid is shown.  st.columns(0) raises too.
Display ==
    /\ pc = "display"
    /\ \E rendered \in RenderOutcomes(Chem) :
          IF rendered /\ Len(molecules_data) > 0
          THEN /\ df_data' = [k \in 1 .. Len(molecules_data) |->
                                 Row(k - 1, molecules_data[k])]
               /\ images' = [k \in 1 .. Len(molecules_data) |-> molecules_data[k].mol]
               /\ num_cols' = Min(GRID_COLS, Len(molecules_data))
               /\ ui' = "results"
               /\ UNCHANGED escaped
          ELSE /\ escaped' = "display_results"
               /\ ui' = "exception"
               /\ UNCHANGED <<df_data, images, num_cols>>
    /\ pc' = "idle"
    /\ UNCHANGED <<RDKIT_AVAILABLE, banner, Chem, rng, num_molecules, molecules_data, i,
                   frag1, frag2, linker, j, valid_molecule, last, slotOf,
                   firstInRange, firstOk, sawValid, draws, started, returned,
                   reference, repeat>>

Next ==
    \/ Press
    \/ NextSlot
    \/ TryPattern
    \/ Collect
    \/ Return
    \/ Display

Spec == Init /\ [][Next]_vars

\* The script runs each handler to its end: no step of it is postponed for
\* ever.  (Pressing the button is the user's.)
Run == NextSlot \/ TryPattern \/ Collect \/ Return \/ Display
FairSpec == Spec /\ WF_vars(Run)

\* ------------------------------------------------------------------ claims
\* The six patterns of the running slot, as the specification lists them.
Listed(k) ==
    CASE k = 1 -> frag1 \o linker \o frag2
      [] k = 2 -> frag2 \o linker \o frag1
      [] k = 3 -> frag1 \o linker
      [] k = 4 -> frag2 \o linker
      [] k = 5 -> linker \o frag1 \o frag2
      [] k = 6 -> linker \o frag2 \o frag1

\* C1: every record in the result list, at every point of a call and after
\* it, holds a molecular weight w with 150.00 <= w <= 500.00.
C1_WeightInRange ==
    /\ \A k \in 1 .. Len(molecules_data) :
          15000 <= molecules_data[k].mol_wt /\ molecules_data[k].mol_wt <= 50000
    /\ returned.done =>
          \A k \in 1 .. Len(returned.list) :
             15000 <= returned.list[k].mol_wt /\ returned.list[k].mol_wt <= 50000

\* A returned list that holds a record on each bound.
C1_Witness ==
    /\ returned.done
    /\ \E a, b \in 1 .. Len(returned.list) :
          returned.list[a].mol_wt = 15000 /\ returned.list[b].mol_wt = 50000

\* C2: after s slots the list holds at most s records, and a call returns
\* at most num_molecules records.
C2_AtMostOnePerSlot ==
    /\ Len(molecules_data) <= i
    /\ i <= num_molecules
    /\ returned.done => Len(returned.list) <= num_molecules

\* A call that returned fewer records than were asked for, but some.
C2_Witness ==
    /\ returned.done
    /\ Len(returned.list) >= 1
    /\ Len(returned.list) < num_molecules

\* C3 as stated: the slot's record is the first listed pattern that the
\* toolkit parsed and weighed in [150, 500], and no later pattern was
\* submitted.
C3_FirstParsedInRange ==
    pc = "collect" =>
       IF firstInRange = 0
       THEN valid_molecule = None
       ELSE /\ valid_molecule # None
            /\ valid_molecule.smiles = Listed(firstInRange)
            /\ last.index = firstInRange

\* C3, amended: the slot's record is the first listed pattern that the
\* toolkit parsed, for which all five descriptor computations returned, and
\* whose weight is in [150, 500]; no later pattern of the slot is
\* submitted; there is no record when no pattern is such.
C3_FirstAccepted ==
    /\ pc = "collect" =>
          IF firstOk = 0
          THEN valid_molecule = None /\ last.index = 6
          ELSE /\ valid_molecule # None
               /\ valid_molecule.smiles = Listed(firstOk)
               /\ last.index = firstOk
               /\ j = firstOk
    /\ pc = "try" => firstOk = 0 /\ valid_molecule = None /\ last.index = j - 1

\* Only pattern (c) is acceptable, and the record is exactly frag1 + linker.
C3_Witness ==
    /\ Chem = "any"
    /\ pc = "collect"
    /\ firstOk = 3
    /\ frag1 # frag2
    /\ valid_molecule # None
    /\ valid_molecule.smiles = frag1 \o linker

\* C4: a pattern for which the toolkit returns None or raises is rejected
\* alone: the loop goes on to the next pattern of the slot (or the slot
\* ends after the sixth), the slot has no record for it, and no exception
\* leaves generate_molecules; a call in which no parse returned a molecule
\* returns the empty list.
C4_FailureRejectsOnePattern ==
    /\ escaped # "generate_molecules"
    /\ (last # NoAnswer /\ last.kind \in {"None", "raised"}) =>
          /\ valid_molecule = None
          /\ pc \in {"try", "collect"}
          /\ pc = "try" => j = last.index + 1
          /\ pc = "collect" => last.index = 6
    /\ ~sawValid => molecules_data = << >>
    /\ (~sawValid /\ returned.done) => returned.list = << >>

\* A descriptor computation raised for the third pattern, after a weight in
\* range; the fourth pattern is next, and the list keeps its one record.
C4_Witness ==
    /\ pc = "try"
    /\ last # NoAnswer
    /\ last.kind = "raised"
    /\ last.mol_wt = 321456
    /\ last.index = 3
    /\ j = 4
    /\ Len(molecules_data) = 1

\* C5: a pattern the toolkit parsed and whose five descriptors computed is
\* accepted if and only if its weight is in [150, 500] (bounds included),
\* whatever the other four descriptors are.
C5_GateIsWeightOnly ==
    (last # NoAnswer /\ last.kind = "computed") =>
       (  (pc = "collect" /\ valid_molecule # None
              /\ valid_molecule.smiles = Listed(last.index))
          <=> (150000 <= last.mol_wt /\ last.mol_wt <= 500000))

\* A weight of exactly 150 is accepted with a logP of 6.78, 12 acceptors
\* and 6 donors.
C5_Witness ==
    /\ last # NoAnswer
    /\ last.kind = "computed"
    /\ last.mol_wt = 150000
    /\ valid_molecule # None
    /\ valid_molecule.mol_wt = 15000
    /\ valid_molecule.logp = 678
    /\ valid_molecule.h_acceptors = 12
    /\ valid_molecule.h_donors = 6

\* C6 as stated: every record in the result list has had its identifier
\* MOL_<position> since it was appended.
C6_TaggedWhenAppended ==
    \A k \in 1 .. Len(molecules_data) :
       k <= Len(df_data) /\ df_data[k].id = "MOL_" \o ToString(k)

\* C6, amended: the identifiers are given by display_results, by position
\* in the returned list: when the results are shown, the k records carry
\* MOL_1 .. MOL_k in list order, whichever slots produced them.
C6_IdsDenseWhenDisplayed ==
    /\ ui = "results" =>
          /\ Len(df_data) = Len(molecules_data)
          /\ Len(df_data) >= 1
          /\ \A k \in 1 .. Len(df_data) :
                /\ df_data[k].id = "MOL_" \o ToString(k)
                /\ df_data[k].smiles = molecules_data[k].smiles
                /\ df_data[k].mol_wt = molecules_data[k].mol_wt
    /\ ui # "results" => df_data = << >>

\* The first slot was dropped, and the second slot's record is MOL_1.
C6_Witness ==
    /\ ui = "results"
    /\ slotOf = <<2>>
    /\ Len(df_data) = 1
    /\ df_data[1].id = "MOL_1"

\* C7 as stated: no two records of the result list carry the same SMILES.
C7_NoDuplicateSmiles ==
    \A a, b \in 1 .. Len(molecules_data) :
       a # b => molecules_data[a].smiles # molecules_data[b].smiles

\* C7, amended: nothing is de-duplicated.  The record of every slot that
\* accepted a pattern is appended, and the list is otherwise left as it
\* is, whether or not the same SMILES string is already in it.
C7_EveryAcceptedIsAppended ==
    [][ pc = "collect" =>
           molecules_data' =
              IF valid_molecule # None
              THEN Append(molecules_data, valid_molecule)
              ELSE molecules_data ]_vars

\* Two records of one result list with the same SMILES string.
C7_Witness ==
    \E a, b \in 1 .. Len(molecules_data) :
       a < b /\ molecules_data[a].smiles = molecules_data[b].smiles

\* C8: with a deterministic toolkit, a call that starts from the same
\* generator state and the same count as the first call makes the same
\* draws and returns the same list (patterns and descriptor values, in
\* order).
C8_Deterministic ==
    ( /\ Chem \in PureToolkits
      /\ reference # NoReference
      /\ returned.done
      /\ started = reference.started )
    => (returned.list = reference.returned /\ draws = reference.draws)

\* A later call from the first call's generator state, returning the same
\* non-empty list with a dropped slot.
C8_Witness ==
    /\ Chem = "byLength"
    /\ repeat
    /\ returned.done
    /\ started = reference.started
    /\ started.n = 2
    /\ Len(returned.list) = 1

\* The part of C9 that holds in every state: three draws per slot, in the
\* order frag1, frag2, linker; at most six patterns submitted per slot;
\* records in increasing slot order; a call returns after exactly
\* num_molecules slots and 3 * num_molecules draws.
C9_Safety ==
    /\ pc = "for" => Len(draws) = 3 * i
    /\ pc \in {"try", "collect"} =>
          /\ Len(draws) = 3 * (i + 1)
          /\ i < num_molecules
          /\ draws[3 * i + 1].seq = "fragments" /\ frag1 = fragments[draws[3 * i + 1].k + 1]
          /\ draws[3 * i + 2].seq = "fragments" /\ frag2 = fragments[draws[3 * i + 2].k + 1]
          /\ draws[3 * i + 3].seq = "linkers" /\ linker = linkers[draws[3 * i + 3].k + 1]
          /\ j \in 1 .. 6
          /\ last.index <= 6
    /\ Len(slotOf) = Len(molecules_data)
    /\ \A k \in 1 .. Len(slotOf) : slotOf[k] <= i
    /\ \A a, b \in 1 .. Len(slotOf) : a < b => slotOf[a] < slotOf[b]
    /\ returned.done =>
          /\ i = num_molecules
          /\ Len(draws) = 3 * num_molecules

\* C9: generate_molecules terminates after exactly num_molecules slots,
\* each of three draws (frag1, frag2, linker) and at most six patterns; a
\* slot that yields nothing is neither retried nor replaced; records are
\* in slot order.
C9_TerminatesAfterAllSlots ==
    /\ []C9_Safety
    /\ (pc = "for" /\ i = 0) ~> (returned.done)

\* A call of two slots returned after six draws with one record, that of
\* its second slot.
C9_Witness ==
    /\ returned.done
    /\ num_molecules = 2
    /\ Len(draws) = 6
    /\ slotOf = <<2>>

\* C10: a failed import shows at startup only.  With Chem = None no
\* exception leaves generate_molecules, every call returns the empty list
\* and ends in the warning; and display_results never gets an empty list,
\* so that its grid has 1 to 4 columns.
C10_MissingToolkitIsQuiet ==
    /\ RDKIT_AVAILABLE <=> banner = ""
    /\ ~RDKIT_AVAILABLE =>
          /\ Chem = "None"
          /\ escaped = ""
          /\ molecules_data = << >>
          /\ pc # "display"
          /\ ui \in {"info", "spinner", "warning"}
          /\ returned.done => (returned.list = << >> /\ ui = "warning")
    /\ pc = "display" => Len(molecules_data) >= 1
    /\ ui = "results" => num_cols \in 1 .. 4
    /\ (escaped = "display_results" \/ ui = "results") => Len(molecules_data) >= 1

\* Without the toolkit, a call of two slots has returned and the page shows
\* the warning.
C10_Witness ==
    /\ ~RDKIT_AVAILABLE
    /\ banner = "RDKit not available"
    /\ returned.done
    /\ returned.list = << >>
    /\ num_molecules = 2
    /\ i = 2
    /\ ui = "warning"

=============================================================================
